---------------------------- MODULE Spec2Model ----------------------------
(***************************************************************************)
(* Model of roomscraper.py: the scrape of raw section records into the     *)
(* module-level room list room_bookings, the JSON snapshot rooms_data.json *)
(* and the open-room query at the end of main().                           *)
(*                                                                         *)
(* Python strings are sequences of one-character strings, so that the      *)
(* string operations of the code (split, in, replace, lower, int, the      *)
(* regular expression of parse_days) are computed and not assumed.         *)
(***************************************************************************)
EXTENDS Integers, Sequences, FiniteSets, TLC

VARIABLES
    pc,                    \* position of the process in main()
    crash,                 \* the exception that ended the process, "" if none
    room_bookings,         \* module-level list of Room objects (line 18)
    file,                  \* content of rooms_data.json, NoFile when absent
    remaining,             \* subjects of the loop of line 192 still to fetch
    filter,                \* main's argument
    current_day,           \* line 215
    current_time,          \* line 214
    open_rooms,            \* line 221
    formatted_open_rooms,  \* line 230, a dict as a sequence of <<key, value>>
    keys_with_max_value,   \* line 246
    fetched,               \* history: raw sections handed to get_rooms by this process
    upserted,              \* history: formatted sections run through the loop of line 173
    origin,                \* history: how room_bookings was filled ("none", "scrape", "file")
    scraped,               \* history: room_bookings as it was when the snapshot was written
    preload                \* history: room_bookings as it was just before the last restore

vars == <<pc, crash, room_bookings, file, remaining, filter, current_day,
          current_time, open_rooms, formatted_open_rooms, keys_with_max_value,
          fetched, upserted, origin, scraped, preload>>

---------------------------------------------------------------------------
(* Bounds of the model *)

\* raw sections fetched by one process
MaxSections == 3
\* subject pages listed by the index page
MaxSubjects == 2

---------------------------------------------------------------------------
(* Python string operations *)

UPPER == <<"A","B","C","D","E","F","G","H","I","J","K","L","M",
           "N","O","P","Q","R","S","T","U","V","W","X","Y","Z">>
LOWER == <<"a","b","c","d","e","f","g","h","i","j","k","l","m",
           "n","o","p","q","r","s","t","u","v","w","x","y","z">>
DIGITS == <<"0","1","2","3","4","5","6","7","8","9">>

IsUpper(c) == \E i \in 1..Len(UPPER) : UPPER[i] = c

LowerChar(c) ==
    IF IsUpper(c) THEN LOWER[CHOOSE i \in 1..Len(UPPER) : UPPER[i] = c] ELSE c

\* str.lower()
Lower(s) == [i \in 1..Len(s) |-> LowerChar(s[i])]

\* sub in s
Contains(sub, s) ==
    \E i \in 0..(Len(s) - Len(sub)) : SubSeq(s, i + 1, i + Len(sub)) = sub

\* s.split(sep) for a one-character separator
RECURSIVE Split(_, _)
Split(s, sep) ==
    IF \A i \in 1..Len(s) : s[i] # sep
    THEN <<s>>
    ELSE LET k == CHOOSE i \in 1..Len(s) :
                      s[i] = sep /\ \A j \in 1..(i - 1) : s[j] # sep
         IN  <<SubSeq(s, 1, k - 1)>> \o Split(SubSeq(s, k + 1, Len(s)), sep)

\* s.replace(old, '')
RECURSIVE Remove(_, _)
Remove(s, old) ==
    IF Len(s) < Len(old) THEN s
    ELSE IF SubSeq(s, 1, Len(old)) = old
         THEN Remove(SubSeq(s, Len(old) + 1, Len(s)), old)
         ELSE <<s[1]>> \o Remove(Tail(s), old)

IsDigit(c) == \E i \in 1..Len(DIGITS) : DIGITS[i] = c

DigitValue(c) == (CHOOSE i \in 1..Len(DIGITS) : DIGITS[i] = c) - 1

\* int(s) succeeds
IsInt(s) == Len(s) > 0 /\ \A i \in 1..Len(s) : IsDigit(s[i])

\* int(s)
RECURSIVE ToInt(_)
ToInt(s) ==
    IF Len(s) = 0 THEN 0
    ELSE 10 * ToInt(SubSeq(s, 1, Len(s) - 1)) + DigitValue(s[Len(s)])

---------------------------------------------------------------------------
(* parse_times, parse_days *)

\* F on the value of v, with v evaluated once however often F uses it
Bind(v, F(_)) == CHOOSE r \in { F(x) : x \in {v} } : TRUE

Raise(e) == [ok |-> FALSE, error |-> e]
Return(v) == [ok |-> TRUE, value |-> v]

\* the helper of lines 80..97
time_to_24h(t_str0) ==
    LET t_str1 == Lower(t_str0)
        is_pm  == Contains(<<"p","m">>, t_str1)
        t_str  == Remove(Remove(t_str1, <<"a","m">>), <<"p","m">>)
        parts  == Split(t_str, ":")
        hours_s   == IF Contains(<<":">>, t_str) THEN parts[1] ELSE t_str
        minutes_s == IF Contains(<<":">>, t_str) THEN parts[2] ELSE <<"0","0">>
    IN  IF Contains(<<":">>, t_str) /\ Len(parts) # 2
        THEN Raise("ValueError")
        ELSE IF ~IsInt(hours_s) \/ ~IsInt(minutes_s)
        THEN Raise("ValueError")
        ELSE LET h == ToInt(hours_s)
                 m == ToInt(minutes_s)
                 hours == IF is_pm /\ h < 12 THEN h + 12
                          ELSE IF ~is_pm /\ h = 12 THEN 0
                          ELSE h
             IN  Return((hours * 100) + m)

parse_times(time_str) ==
    IF time_str = <<"T","B","A">> \/ time_str = <<"N","A">>
    THEN Return(<<0, 0>>)
    ELSE
    LET parts == Split(time_str, "-") IN
    IF Len(parts) # 2 THEN Raise("ValueError")
    ELSE
    LET end_time_str == parts[2]
        am == <<"a","m">>
        pm == <<"p","m">>
        start_time_str ==
            IF Contains(am, Lower(end_time_str)) /\ ~Contains(am, Lower(parts[1]))
                                                 /\ ~Contains(pm, Lower(parts[1]))
            THEN parts[1] \o am
            ELSE IF Contains(pm, Lower(end_time_str)) /\ ~Contains(pm, Lower(parts[1]))
                                                      /\ ~Contains(am, Lower(parts[1]))
            THEN parts[1] \o pm
            ELSE parts[1]
        start_time == time_to_24h(start_time_str)
        end_time   == time_to_24h(end_time_str)
    IN  IF ~start_time.ok THEN start_time
        ELSE IF ~end_time.ok THEN end_time
        ELSE Return(<<start_time.value, end_time.value>>)

\* re.findall('[A-Z][^A-Z]*', days_str)
RECURSIVE parse_days(_)
parse_days(days_str) ==
    IF \A i \in 1..Len(days_str) : ~IsUpper(days_str[i])
    THEN <<>>
    ELSE LET b == CHOOSE i \in 1..Len(days_str) :
                      IsUpper(days_str[i]) /\ \A j \in 1..(i - 1) : ~IsUpper(days_str[j])
             rest == SubSeq(days_str, b + 1, Len(days_str))
             n == IF \A i \in 1..Len(rest) : ~IsUpper(rest[i])
                  THEN Len(rest)
                  ELSE (CHOOSE i \in 1..Len(rest) :
                            IsUpper(rest[i]) /\ \A j \in 1..(i - 1) : ~IsUpper(rest[j])) - 1
         IN  <<SubSeq(days_str, b, b + n)>> \o parse_days(SubSeq(rest, n + 1, Len(rest)))

---------------------------------------------------------------------------
(* Inputs *)

Str_HC1 == <<"H","C","1">>
Str_hc1 == <<"h","c","1">>
Str_LA2 == <<"L","A","2">>

RawSection(location, days, time) ==
    [LOCATION |-> location, DAYS |-> days, TIME |-> time]

\* the rows the schedule pages offer: a plain meeting, meetings on several
\* days, an unscheduled one, one without days, one whose start carries no
\* am/pm, and one whose time is no range
RawSections ==
    { RawSection(Str_HC1, <<"M">>,             <<"9","-","1","0","a","m">>),
      RawSection(Str_hc1, <<"M","W">>,         <<"1","-","2","p","m">>),
      RawSection(Str_LA2, <<"W">>,             <<"1","-","2","p","m">>),
      RawSection(Str_LA2, <<"M">>,             <<"T","B","A">>),
      RawSection(Str_HC1, <<>>,                <<"T","B","A">>),
      RawSection(Str_HC1, <<"T","u","T","h">>, <<"1","1","-","1",":","3","0","p","m">>),
      RawSection(Str_LA2, <<"F">>,             <<"A","R","R">>) }

\* pages as the sequence of their course tables, each a non-empty sequence of
\* rows (a table of no rows adds nothing), n rows in all
RECURSIVE PagesOfSize(_)
PagesOfSize(n) ==
    IF n = 0 THEN {<<>>}
    ELSE UNION { { <<t>> \o p : t \in [1..k -> RawSections], p \in PagesOfSize(n - k) }
                 : k \in 1..n }

\* the pages of n rows, for each n, evaluated once
PagesBySize == [n \in 0..MaxSections |-> PagesOfSize(n)] @@ <<>>

RECURSIVE Flatten(_)
Flatten(html) == IF Len(html) = 0 THEN <<>> ELSE Head(html) \o Flatten(Tail(html))

Filters == { <<>>, <<"h","c">> }
QueryWeekdays == {0, 2}
QueryTimes == {0, 1000, 1200}

---------------------------------------------------------------------------
(* parse_sections_table: lines 48..63, on the section dicts of lines 40..46 *)

\* parse_times and parse_days on the texts of the rows, evaluated once
TimesOf == [text \in { s.TIME : s \in RawSections } |-> parse_times(text)] @@ <<>>
DaysOf == [text \in { s.DAYS : s \in RawSections } |-> parse_days(text)] @@ <<>>

\* the loop of lines 49..61; formatted_section is <<>> while the local name
\* is unbound and <<dict>> once an iteration of line 53 has bound it
RECURSIVE parse_sections_loop(_, _, _, _)
parse_sections_loop(sections, i, formatted, formatted_section) ==
    IF i > Len(sections) THEN Return(formatted)
    ELSE
    LET section == sections[i]
        times   == TimesOf[section.TIME]
    IN  IF ~times.ok THEN Raise("ValueError:parse_times")
        ELSE
        LET days == DaysOf[section.DAYS]
            bound == IF Len(days) = 0
                     THEN formatted_section
                     ELSE << [Location |-> section.LOCATION,
                              Day      |-> days[Len(days)],
                              Start    |-> times.value[1],
                              End      |-> times.value[2]] >>
            Step(b) == IF Len(b) = 0
                       THEN Raise("UnboundLocalError:formatted_section")
                       ELSE parse_sections_loop(sections, i + 1, Append(formatted, b[1]), b)
        IN  Bind(bound, Step)

parse_sections_table(sections) == parse_sections_loop(sections, 1, <<>>, <<>>)

---------------------------------------------------------------------------
(* class Room and get_rooms *)

\* the tuple (day, (start, end)) of lines 177 and 180; form tells the tuple
\* built by the scrape from the list json.load returns for it
BookedTime(day, start, end) ==
    [form |-> "tuple", day |-> day, start |-> start, end |-> end]

Room(location, booked_times) ==
    [location |-> location, booked_times |-> booked_times]

add_booked_time(room, booked_time) ==
    [room EXCEPT !.booked_times = Append(@, booked_time)]

\* is_open with the end of a booking left out of it
is_open_before_end(room, day, now) ==
    \A i \in 1..Len(room.booked_times) :
        LET b == room.booked_times[i]
        IN  (day = b.day) => ~(b.start <= now /\ now < b.end)

is_open(room, day, now) ==
    \A i \in 1..Len(room.booked_times) :
        LET b == room.booked_times[i]
        IN  (day = b.day) => ~(b.start <= now /\ now <= b.end)

\* the for/else with locations compared without regard to case
get_rooms_section_nocase(room_list, section) ==
    LET bt == BookedTime(section.Day, section.Start, section.End)
        Body(rooms) ==
            IF \E i \in 1..Len(rooms) : Lower(rooms[i].location) = Lower(section.Location)
            THEN LET k == CHOOSE i \in 1..Len(rooms) :
                              /\ Lower(rooms[i].location) = Lower(section.Location)
                              /\ \A j \in 1..(i - 1) :
                                     Lower(rooms[j].location) # Lower(section.Location)
                 IN  [rooms EXCEPT ![k] = add_booked_time(@, bt)]
            ELSE Append(rooms, Room(section.Location, <<bt>>))
    IN  Bind(room_list, Body)

\* the for/else of lines 175..181 for one section
get_rooms_section(room_list, section) ==
    LET bt == BookedTime(section.Day, section.Start, section.End)
        Body(rooms) ==
            IF \E i \in 1..Len(rooms) : rooms[i].location = section.Location
            THEN LET k == CHOOSE i \in 1..Len(rooms) :
                              /\ rooms[i].location = section.Location
                              /\ \A j \in 1..(i - 1) : rooms[j].location # section.Location
                 IN  [rooms EXCEPT ![k] = add_booked_time(@, bt)]
            ELSE Append(rooms, Room(section.Location, <<bt>>))
    IN  Bind(room_list, Body)

\* the loop of line 173
RECURSIVE get_rooms_sections(_, _, _)
get_rooms_sections(rooms, sections, i) ==
    IF i > Len(sections) THEN rooms
    ELSE get_rooms_sections(get_rooms_section(rooms, sections[i]), sections, i + 1)

\* get_rooms on a page whose course tables are html[1], html[2], ...; the
\* result carries the room list as the call leaves it, also when it raises,
\* and the formatted sections it ran through the loop of line 173
RECURSIVE get_rooms(_, _, _, _)
get_rooms(html, c, rooms, log) ==
    IF c > Len(html) THEN [ok |-> TRUE, error |-> "", rooms |-> rooms, log |-> log]
    ELSE LET Step(sections) ==
                 IF ~sections.ok
                 THEN [ok |-> FALSE, error |-> sections.error, rooms |-> rooms, log |-> log]
                 ELSE get_rooms(html, c + 1,
                                get_rooms_sections(rooms, sections.value, 1),
                                log \o sections.value)
         IN  Bind(parse_sections_table(html[c]), Step)

---------------------------------------------------------------------------
(* rooms_data.json: lines 197..200 and 204..210 *)

\* os.path.exists(rooms_data_file) and what the file holds
NoFile == [exists |-> FALSE, data |-> <<>>]
SavedFile(data) == [exists |-> TRUE, data |-> data]

\* json.dump of rooms_dicts: a tuple or a list is written as a JSON array
json_dump(rooms) ==
    [r \in 1..Len(rooms) |->
        [location |-> rooms[r].location,
         booked_times |->
            [i \in 1..Len(rooms[r].booked_times) |->
                LET b == rooms[r].booked_times[i]
                IN  <<b.day, <<b.start, b.end>>>>]]]

\* json.load, then Room(...) for each dict: a JSON array is read as a list
json_load_rooms(rooms_dicts) ==
    [r \in 1..Len(rooms_dicts) |->
        Room(rooms_dicts[r].location,
             [i \in 1..Len(rooms_dicts[r].booked_times) |->
                LET a == rooms_dicts[r].booked_times[i]
                IN  [form |-> "list", day |-> a[1], start |-> a[2][1], end |-> a[2][2]]])]

\* the load without room_bookings.clear()
restore_without_clear(rooms, rooms_dicts) == rooms \o json_load_rooms(rooms_dicts)

\* lines 207..210: room_bookings.clear(), then one append per dict
restore(rooms, rooms_dicts) ==
    LET cleared == SubSeq(rooms, 1, 0)
    IN  cleared \o json_load_rooms(rooms_dicts)

---------------------------------------------------------------------------
(* the query of main: lines 213..248 *)

WEEKDAY_ABBR ==
    LET abbr == << <<"M">>, <<"T","u">>, <<"W">>, <<"T","h">>,
                   <<"F">>, <<"S","a">>, <<"S","u">> >>
    IN  [w \in 0..6 |-> abbr[w + 1]]

\* line 234: the value that stands for "the end of today"
EndOfToday == 2400

\* lines 221..228; a filter of None or '' is <<>>, the values `if filter:` rejects
select_open_rooms(rooms, f, day, now) ==
    SelectSeq(rooms, LAMBDA room :
        /\ is_open(room, day, now)
        /\ (f # <<>>) => Contains(Lower(f), Lower(room.location)))

\* lines 234..238
RECURSIVE last_start_loop(_, _, _, _)
last_start_loop(booked_times, i, now, last_start) ==
    IF i > Len(booked_times) THEN last_start
    ELSE LET start == booked_times[i].start
             Step(last) == last_start_loop(booked_times, i + 1, now,
                                           IF start > now /\ start < last
                                           THEN start ELSE last)
         IN  Bind(last_start, Step)

next_start(room, now) == last_start_loop(room.booked_times, 1, now, EndOfToday)

\* d[key] = value on a dict kept as a sequence of <<key, value>>
DictSet(d, key, value) ==
    IF \E i \in 1..Len(d) : d[i][1] = key
    THEN [i \in 1..Len(d) |-> IF d[i][1] = key THEN <<key, value>> ELSE d[i]]
    ELSE Append(d, <<key, value>>)

\* datetime.strptime(str(v), '%H%M') of lines 241 and 248 succeeds; for an
\* hour*100+minute value it fails exactly on the one-character strings
strptime_ok(v) == v >= 10

\* the loop of lines 232..241
RECURSIVE format_open_rooms(_, _, _, _)
format_open_rooms(open, i, now, formatted) ==
    IF i > Len(open) THEN [ok |-> TRUE, error |-> "", formatted |-> formatted]
    ELSE LET Step(e) ==
                 IF e.last_start # EndOfToday /\ ~strptime_ok(e.last_start)
                 THEN [ok |-> FALSE, error |-> "ValueError:strptime", formatted |-> e.d]
                 ELSE format_open_rooms(open, i + 1, now, e.d)
             Entry(d) == Bind([last_start |-> next_start(open[i], now), d |-> d],
                              LAMBDA e : [last_start |-> e.last_start,
                                          d |-> DictSet(e.d, open[i].location, e.last_start)])
         IN  Bind(Bind(formatted, Entry), Step)

Values(d) == {d[i][2] : i \in 1..Len(d)}

Max(S) == CHOOSE x \in S : \A y \in S : y <= x

\* a single winner: the first key that has the largest value
max_keys_first(formatted) ==
    LET max_value == Max(Values(formatted))
        hits == SelectSeq(formatted, LAMBDA kv : kv[2] = max_value)
    IN  <<hits[1][1]>>

\* line 246
max_keys(formatted) ==
    LET max_value == Max(Values(formatted))
        hits == SelectSeq(formatted, LAMBDA kv : kv[2] = max_value)
    IN  [i \in 1..Len(hits) |-> hits[i][1]]

\* lines 221..248
Query(rooms, f, day, now) ==
    LET Result(fmt, open) ==
            IF ~fmt.ok
            THEN [ok |-> FALSE, error |-> fmt.error, open_rooms |-> open,
                  formatted_open_rooms |-> fmt.formatted, keys_with_max_value |-> <<>>]
            ELSE IF Len(fmt.formatted) = 0
            THEN [ok |-> FALSE, error |-> "ValueError:max", open_rooms |-> open,
                  formatted_open_rooms |-> fmt.formatted, keys_with_max_value |-> <<>>]
            ELSE [ok |-> TRUE, error |-> "", open_rooms |-> open,
                  formatted_open_rooms |-> fmt.formatted,
                  keys_with_max_value |-> Bind(fmt.formatted, max_keys)]
        Format(open) == Bind(format_open_rooms(open, 1, now, <<>>),
                             LAMBDA fmt : Result(fmt, open))
    IN  Bind(select_open_rooms(rooms, f, day, now), Format)

---------------------------------------------------------------------------
(* The process *)

NoQuery ==
    /\ current_day' = <<>>
    /\ current_time' = 0
    /\ open_rooms' = <<>>
    /\ formatted_open_rooms' = <<>>
    /\ keys_with_max_value' = <<>>

Init ==
    /\ pc = "start"
    /\ crash = ""
    /\ room_bookings = <<>>
    /\ file = NoFile
    /\ remaining = 0
    /\ filter = <<>>
    /\ current_day = <<>>
    /\ current_time = 0
    /\ open_rooms = <<>>
    /\ formatted_open_rooms = <<>>
    /\ keys_with_max_value = <<>>
    /\ fetched = <<>>
    /\ upserted = <<>>
    /\ origin = "none"
    /\ scraped = <<>>
    /\ preload = <<>>

\* lines 213..248 on the room list `rooms`, at weekday wd and time now
RunQuery(rooms, f, wd, now) ==
    \E q \in { Query(rooms, f, WEEKDAY_ABBR[wd], now) } :
        /\ current_day' = WEEKDAY_ABBR[wd]
        /\ current_time' = now
        /\ open_rooms' = q.open_rooms
        /\ formatted_open_rooms' = q.formatted_open_rooms
        /\ keys_with_max_value' = q.keys_with_max_value
        /\ pc' = IF q.ok THEN "done" ELSE "crashed"
        /\ crash' = q.error

\* lines 196..200, then the query
SaveAndQuery(rooms, wd, now) ==
    /\ file' = SavedFile(json_dump(rooms))
    /\ scraped' = rooms
    /\ RunQuery(rooms, filter, wd, now)

\* lines 184..190: no saved file, the index page is requested
MainScrape(f) ==
    /\ pc = "start"
    /\ ~file.exists
    /\ pc' = "subjects"
    /\ filter' = f
    /\ UNCHANGED <<crash, room_bookings, file, remaining, current_day, current_time,
                   open_rooms, formatted_open_rooms, keys_with_max_value,
                   fetched, upserted, origin, scraped, preload>>

\* line 191: the index page lists n subjects; with none the loop of line 192
\* is skipped and main goes on to save and query
GetSubjects(n, wd, now) ==
    /\ pc = "subjects"
    /\ origin' = "scrape"
    /\ IF n = 0
       THEN /\ SaveAndQuery(room_bookings, wd, now)
            /\ UNCHANGED remaining
       ELSE /\ remaining' = n
            /\ pc' = "scraping"
            /\ UNCHANGED <<crash, file, scraped, current_day, current_time,
                           open_rooms, formatted_open_rooms, keys_with_max_value>>
    /\ UNCHANGED <<room_bookings, filter, fetched, upserted, preload>>

\* lines 193..194 for one subject, whose page is html; after the last one
\* main goes on to the save and the query (lines 196..248)
ScrapeSubject ==
    /\ pc = "scraping"
    /\ \E n \in 0..(MaxSections - Len(fetched)) :
       \E html \in PagesBySize[n] :
       \E r \in { get_rooms(html, 1, room_bookings, upserted) } :
           /\ room_bookings' = r.rooms
           /\ upserted' = r.log
           /\ fetched' = fetched \o Flatten(html)
           /\ IF ~r.ok
              THEN /\ pc' = "crashed"
                   /\ crash' = r.error
                   /\ UNCHANGED <<remaining, file, scraped, current_day, current_time,
                                  open_rooms, formatted_open_rooms, keys_with_max_value>>
              ELSE IF remaining > 1
              THEN /\ remaining' = remaining - 1
                   /\ UNCHANGED <<pc, crash, file, scraped, current_day, current_time,
                                  open_rooms, formatted_open_rooms, keys_with_max_value>>
              ELSE /\ remaining' = 0
                   /\ \E wd \in QueryWeekdays, now \in QueryTimes :
                          SaveAndQuery(r.rooms, wd, now)
    /\ UNCHANGED <<filter, origin, preload>>

\* lines 122..125: a response that is not 200 makes get_page_html return [],
\* and get_subjects or get_rooms then calls find_all on a list
FetchFailed ==
    /\ pc \in {"subjects", "scraping"}
    /\ pc' = "crashed"
    /\ crash' = "AttributeError:find_all"
    /\ UNCHANGED <<room_bookings, file, remaining, filter, current_day, current_time,
                   open_rooms, formatted_open_rooms, keys_with_max_value,
                   fetched, upserted, origin, scraped, preload>>

\* lines 201..248: the saved file exists; main is entered by a fresh process
\* or called once more by the process whose last call returned
MainLoad(f) ==
    /\ pc \in {"start", "done"}
    /\ file.exists
    /\ filter' = f
    /\ preload' = room_bookings
    /\ origin' = "file"
    /\ fetched' = <<>>
    /\ upserted' = <<>>
    /\ \E rooms \in { restore(room_bookings, file.data) } :
           /\ room_bookings' = rooms
           /\ \E wd \in QueryWeekdays, now \in QueryTimes : RunQuery(rooms, f, wd, now)
    /\ UNCHANGED <<file, remaining, scraped>>

\* the process has ended; the script is run again (lines 18 and 252)
Restart ==
    /\ pc \in {"done", "crashed"}
    /\ pc' = "start"
    /\ crash' = ""
    /\ room_bookings' = <<>>
    /\ remaining' = 0
    /\ filter' = <<>>
    /\ NoQuery
    /\ fetched' = <<>>
    /\ upserted' = <<>>
    /\ origin' = "none"
    /\ preload' = <<>>
    /\ UNCHANGED <<file, scraped>>

Next ==
    \/ \E f \in Filters : MainScrape(f)
    \/ \E n \in 0..MaxSubjects, wd \in QueryWeekdays, now \in QueryTimes :
           GetSubjects(n, wd, now)
    \/ ScrapeSubject
    \/ FetchFailed
    \/ \E f \in Filters : MainLoad(f)
    \/ Restart

Spec == Init /\ [][Next]_vars

---------------------------------------------------------------------------
(* Vocabulary of the properties *)

\* the query of the current call of main has computed its open rooms
QueryRan == pc = "done" \/ crash \in {"ValueError:max", "ValueError:strptime"}

Locations(rooms) == { rooms[i].location : i \in 1..Len(rooms) }

RoomsOf(rooms) == { rooms[i] : i \in 1..Len(rooms) }

BookingsOf(room) == { room.booked_times[i] : i \in 1..Len(room.booked_times) }

\* the room is among the rooms the query reports open
Reported(room) == \E i \in 1..Len(open_rooms) : open_rooms[i].location = room.location

\* the room passes the filter of the current call
Selected(room) == filter = <<>> \/ Contains(Lower(filter), Lower(room.location))

DictGet(d, key) == d[CHOOSE i \in 1..Len(d) : d[i][1] = key][2]

Min(S) == CHOOSE x \in S : \A y \in S : x <= y

IsTBA(b) == b.start = 0 /\ b.end = 0

Range(s) == { s[i] : i \in 1..Len(s) }

Count(s, x) == Cardinality({ i \in 1..Len(s) : s[i] = x })

\* a booking without the form of its container
Plain(location, b) == [Location |-> location, Day |-> b.day, Start |-> b.start, End |-> b.end]

\* every booking of the calendar, as a sequence
RECURSIVE AllBookings(_)
AllBookings(rooms) ==
    IF Len(rooms) = 0 THEN <<>>
    ELSE [i \in 1..Len(rooms[1].booked_times) |->
              Plain(rooms[1].location, rooms[1].booked_times[i])]
         \o AllBookings(Tail(rooms))

\* the bookings the raw sections stand for: one per day token of each section
\* whose time text parses
RECURSIVE ExpectedBookings(_)
ExpectedBookings(sections) ==
    IF Len(sections) = 0 THEN <<>>
    ELSE LET s == sections[1]
             times == parse_times(s.TIME)
             days == parse_days(s.DAYS)
         IN  (IF times.ok
              THEN [i \in 1..Len(days) |->
                        [Location |-> s.LOCATION, Day |-> days[i],
                         Start |-> times.value[1], End |-> times.value[2]]]
              ELSE <<>>)
             \o ExpectedBookings(Tail(sections))

WellFormed(section) == parse_times(section.TIME).ok /\ Len(parse_days(section.DAYS)) > 0

---------------------------------------------------------------------------
(* Properties *)

\* C1: every raw section handed to the scrape contributes exactly one booking
\* per day token of its day text, with its own location and times: the
\* calendar holds the expected bookings, each as often as expected, and a
\* section without day tokens contributes none.
C1_OneBookingPerDayToken ==
    origin = "scrape" =>
        \A b \in Range(ExpectedBookings(fetched)) \cup Range(AllBookings(room_bookings)) :
            Count(AllBookings(room_bookings), b) = Count(ExpectedBookings(fetched), b)

\* C2: the free-until time reported for an open room is the least start among
\* its bookings of the queried day that begin after now, and the end of today
\* when there is none; bookings of other weekdays play no part.
C2_FreeUntilOfTheDay ==
    pc = "done" =>
        \A room \in RoomsOf(open_rooms) :
            LET later == { b.start : b \in { x \in BookingsOf(room) :
                                               x.day = current_day /\ x.start > current_time } }
            IN  DictGet(formatted_open_rooms, room.location) =
                    IF later = {} THEN EndOfToday ELSE Min(later)

\* C3: bookings of (0, 0) take no part in occupancy: a room passing the filter
\* is reported open exactly when its other bookings leave it open, so a room
\* with only (0, 0) bookings is open at every time, 0 included.
C3_TBAExcluded ==
    QueryRan =>
        \A room \in RoomsOf(room_bookings) :
            Selected(room) =>
                (Reported(room) <=>
                    \A b \in BookingsOf(room) :
                        (~IsTBA(b) /\ b.day = current_day)
                            => ~(b.start <= current_time /\ current_time <= b.end))

FreeUntil == [l \in Locations(open_rooms) |-> DictGet(formatted_open_rooms, l)]

C6_StartLeEnd ==
    \A room \in RoomsOf(room_bookings) : \A b \in BookingsOf(room) : b.start <= b.end

\* C7: a calendar built by upserts from the empty one holds one entry per
\* location string, compared exactly, and the entry of a location lists the
\* bookings upserted for that location, all of them and no others.
C7_OneEntryPerLocation ==
    origin = "scrape" =>
        /\ \A i, j \in 1..Len(room_bookings) :
               room_bookings[i].location = room_bookings[j].location => i = j
        /\ Locations(room_bookings) = { s.Location : s \in Range(upserted) }
        /\ \A room \in RoomsOf(room_bookings) :
               LET mine == SelectSeq(upserted, LAMBDA s : s.Location = room.location)
               IN  room.booked_times =
                       [i \in 1..Len(mine) |->
                            BookedTime(mine[i].Day, mine[i].Start, mine[i].End)]

\* upserts for two locations that differ in case only, one of them twice
C7_Witness ==
    /\ origin = "scrape"
    /\ \E r1, r2 \in RoomsOf(room_bookings) :
           /\ r1.location # r2.location
           /\ Lower(r1.location) = Lower(r2.location)
           /\ Len(r1.booked_times) >= 2

\* what a calendar says, whatever the containers of its bookings
Observed(rooms) ==
    [r \in 1..Len(rooms) |->
        [location |-> rooms[r].location,
         bookings |-> [i \in 1..Len(rooms[r].booked_times) |->
                          Plain(rooms[r].location, rooms[r].booked_times[i])]]]

\* what a query answers
Answer(rooms, f, wd, now) ==
    LET q == Query(rooms, f, WEEKDAY_ABBR[wd], now)
    IN  [ok |-> q.ok, error |-> q.error,
         open |-> [i \in 1..Len(q.open_rooms) |-> q.open_rooms[i].location],
         free_until |-> q.formatted_open_rooms,
         best |-> q.keys_with_max_value]

\* C8: after a restore the calendar is the one the snapshot was taken of,
\* entry by entry and booking by booking, whatever was in memory before, and
\* it answers every query as that calendar does.
C8_RestoreReplaces ==
    origin = "file" =>
        /\ Observed(room_bookings) = Observed(scraped)
        /\ \A f \in Filters, wd \in QueryWeekdays, now \in QueryTimes :
               Answer(room_bookings, f, wd, now) = Answer(scraped, f, wd, now)

\* a restore over a calendar already in memory, of a snapshot with two rooms
C8_Witness ==
    /\ origin = "file"
    /\ preload # <<>>
    /\ Len(room_bookings) >= 2
    /\ \E room \in RoomsOf(room_bookings) : Len(room.booked_times) >= 2

\* C9: a raw section whose time or day text does not parse is skipped: the
\* scrape is not ended by it, and every well-formed section fetched has its
\* room in the calendar.
C9_ParseErrorSkipped ==
    (\E i \in 1..Len(fetched) : ~WellFormed(fetched[i])) =>
        /\ crash # "ValueError:parse_times"
        /\ \A j \in 1..Len(fetched) :
               WellFormed(fetched[j]) => fetched[j].LOCATION \in Locations(room_bookings)

\* C10: the query completes for every calendar, weekday, time and filter, with
\* best among the open rooms; it does not fail when no room is open.
C10_QueryCompletes ==
    /\ crash \notin {"ValueError:max", "ValueError:strptime"}
    /\ pc = "done" => Range(keys_with_max_value) \subseteq Locations(open_rooms)

===========================================================================
